---- MODULE Spec2Model ----
(***************************************************************************)
(* tidyhtml: Copy(dst, src) parses an HTML document into a node tree and   *)
(* tidy.render walks the tree with an explicit cursor, writing the tidy    *)
(* form into a buffer that Copy hands to dst when the walk has ended.      *)
(*                                                                         *)
(* Strings of the program are sequences of one-character strings, so that  *)
(* trimming, collapsing, escaping and tokenizing are computed character by *)
(* character.  The node tree is an arena: a sequence of node records, a    *)
(* node's id is its index, and 0 is the nil pointer.                       *)
(***************************************************************************)
EXTENDS Integers, Sequences, FiniteSets, TLC

VARIABLES
    src,    \* what Copy reads: the tree html.Parse returns for it, and the faults of the collaborators
    pc,     \* position of Copy / tidy.render
    s,      \* the locals of one render call: tree, cursor, the tidy struct, the buffered writer
    dst,    \* the bytes Copy has written to its destination
    ret     \* the error Copy returned ("" is nil)

vars == <<src, pc, s, dst, ret>>

(***************************************************************************)
(* Characters and strings                                                  *)
(***************************************************************************)
NIL == 0
NoErr == ""

\* One character of the model is one byte.  The bytes are ASCII but for 0xC2
\* and 0xA0, written "C2" and "A0": together the UTF-8 form of U+00A0, the
\* no-break space.  A rune is named like the byte of its code point: "A0" is
\* U+00A0, "C2" is U+00C2, "FFFD" is utf8.RuneError.
NoBreakSpace == <<"C2", "A0">>

\* unicode.IsSpace on a rune
IsSpace(c) == c \in {" ", "\n", "\t", "\r", "A0"}

isNotSpace(c) == ~IsSpace(c)

\* the white space of the HTML tokenizer and tree construction: ASCII only
isNotWhitespace(c) == c \notin {" ", "\n", "\t", "\r"}

\* utf8.DecodeRune at position i, and whether a rune starts there
RuneAt(str, i) ==
    IF str[i] = "C2" /\ i < Len(str) /\ str[i + 1] = "A0" THEN "A0"
    ELSE IF str[i] \in {"C2", "A0"} THEN "FFFD"
    ELSE str[i]

RuneStart(str, i) == ~(str[i] = "A0" /\ i > 1 /\ str[i - 1] = "C2")

\* strings.IndexFunc / bytes.IndexFunc: 0-based byte index of the first rune
\* satisfying f, or -1
IndexFunc(str, f(_)) ==
    LET hits == {i \in 1..Len(str) : RuneStart(str, i) /\ f(RuneAt(str, i))}
    IN IF hits = {} THEN -1
       ELSE (CHOOSE i \in hits : \A j \in hits : i <= j) - 1

\* Go slices str[i:] and str[:i]
SliceFrom(str, i) == SubSeq(str, i + 1, Len(str))
SliceTo(str, i) == SubSeq(str, 1, i)

\* bytes.TrimSpace
TrimSpace(str) ==
    LET keep == {i \in 1..Len(str) : RuneStart(str, i) /\ isNotSpace(RuneAt(str, i))}
    IN IF keep = {} THEN <<>>
       ELSE SubSeq(str,
                   CHOOSE i \in keep : \A j \in keep : i <= j,
                   CHOOSE i \in keep : \A j \in keep : i >= j)

\* strings.Contains(str, `"`)
ContainsQuote(str) == \E i \in 1..Len(str) : str[i] = "\""

\* html.EscapeString: the five characters it replaces
EscapeChar(c) ==
    CASE c = "&" -> <<"&", "a", "m", "p", ";">>
      [] c = "'" -> <<"&", "#", "3", "9", ";">>
      [] c = "<" -> <<"&", "l", "t", ";">>
      [] c = ">" -> <<"&", "g", "t", ";">>
      [] c = "\"" -> <<"&", "#", "3", "4", ";">>
      [] OTHER -> <<c>>

\* html.EscapeString left out: the value as it is
EscapeNothing(str) == str

RECURSIVE EscapeString(_)
EscapeString(str) ==
    IF str = <<>> THEN <<>>
    ELSE EscapeChar(Head(str)) \o EscapeString(Tail(str))

(***************************************************************************)
(* Tag names and fixed strings of the renderer                             *)
(***************************************************************************)
tagHtml == <<"h", "t", "m", "l">>
tagHead == <<"h", "e", "a", "d">>
tagBody == <<"b", "o", "d", "y">>
tagTitle == <<"t", "i", "t", "l", "e">>
tagDiv == <<"d", "i", "v">>
tagH1 == <<"h", "1">>
tagP == <<"p">>
tagB == <<"b">>
tagSpan == <<"s", "p", "a", "n">>
tagPre == <<"p", "r", "e">>
tagBr == <<"b", "r">>
tagImg == <<"i", "m", "g">>
tagNoscript == <<"n", "o", "s", "c", "r", "i", "p", "t">>

voidElements ==
    { <<"a", "r", "e", "a">>, <<"b", "a", "s", "e">>, tagBr, <<"c", "o", "l">>,
      <<"c", "o", "m", "m", "a", "n", "d">>, <<"e", "m", "b", "e", "d">>,
      <<"h", "r">>, tagImg, <<"i", "n", "p", "u", "t">>,
      <<"k", "e", "y", "g", "e", "n">>, <<"l", "i", "n", "k">>,
      <<"m", "e", "t", "a">>, <<"p", "a", "r", "a", "m">>,
      <<"s", "o", "u", "r", "c", "e">>, <<"t", "r", "a", "c", "k">>,
      <<"w", "b", "r">> }

IndentUnit == <<" ", " ", " ", " ">>
CommentOpen == <<"<", "!", "-", "-">>
CommentClose == <<"-", "-", ">">>
GuideOpen == <<" ", "<", "=", "=">>
GuideClose == <<" ", "=", "=", ">">>
GuideEnd == <<" ", "-", "-", ">">>
CloseTagOpen == <<"<", "/">>
DoctypeOpen == <<"<", "!", "d", "o", "c", "t", "y", "p", "e", " ">>
DoctypeEnd == <<">", "\n">>
PublicWord == <<" ", "p", "u", "b", "l", "i", "c", " ">>
SystemWord == <<" ", "s", "y", "s", "t", "e", "m", " ">>
keyPublic == <<"p", "u", "b", "l", "i", "c">>
keySystem == <<"s", "y", "s", "t", "e", "m">>

(***************************************************************************)
(* html.Node: the tree as an arena                                         *)
(***************************************************************************)
ElementNode == "Element"
TextNode == "Text"
CommentNode == "Comment"
DoctypeNode == "Doctype"
DocumentNode == "Document"
ErrorNode == "Error"

\* A tree written as a term: [t: type, d: data, a: attributes, k: children]
El(tag, kids) == [t |-> ElementNode, d |-> tag, a |-> <<>>, k |-> kids]
ElA(tag, attrs, kids) == [t |-> ElementNode, d |-> tag, a |-> attrs, k |-> kids]
Txt(data) == [t |-> TextNode, d |-> data, a |-> <<>>, k |-> <<>>]
Cmt(data) == [t |-> CommentNode, d |-> data, a |-> <<>>, k |-> <<>>]
Attribute(key, val) == [Namespace |-> <<>>, Key |-> key, Val |-> val]

\* The nodes of a forest of terms in pre-order, ids base+1.., linked as the
\* parser links them (Parent, FirstChild, PrevSibling, NextSibling)
RECURSIVE Link(_, _, _, _)
Link(terms, parent, base, prev) ==
    IF terms = <<>> THEN <<>>
    ELSE LET tm == Head(terms)
             id == base + 1
             sub == Link(tm.k, id, id, NIL)
             nextBase == id + Len(sub)
             node == [Type |-> tm.t, Data |-> tm.d, Attr |-> tm.a,
                      Parent |-> parent,
                      FirstChild |-> IF tm.k = <<>> THEN NIL ELSE id + 1,
                      PrevSibling |-> prev,
                      NextSibling |-> IF Tail(terms) = <<>> THEN NIL
                                      ELSE nextBase + 1]
         IN <<node>> \o sub \o Link(Tail(terms), parent, nextBase, id)

\* What html.Parse returns: a DocumentNode (id 1) over the top-level nodes
DocumentOf(top) ==
    Link(<<[t |-> DocumentNode, d |-> <<>>, a |-> <<>>, k |-> top]>>, NIL, 0, NIL)

(***************************************************************************)
(* logic.go: predicates over a node and its neighbours                     *)
(***************************************************************************)
\* isVoid with an empty table of void elements
isVoidNever(ns, n) == FALSE

hasChild(ns, n) == ns[n].FirstChild # NIL
hasNext(ns, n) == ns[n].NextSibling # NIL
hasParent(ns, n) == ns[n].Parent # NIL
hasPrev(ns, n) == ns[n].PrevSibling # NIL

isBlankText(ns, n) ==
    /\ n # NIL
    /\ ns[n].Type = TextNode
    /\ IndexFunc(ns[n].Data, isNotSpace) = -1

isPreNode(ns, n) ==
    n # NIL /\ ns[n].Type = ElementNode /\ ns[n].Data = tagPre

\* The children of n, following FirstChild and NextSibling
RECURSIVE SiblingsFrom(_, _)
SiblingsFrom(ns, c) ==
    IF c = NIL THEN <<>> ELSE <<c>> \o SiblingsFrom(ns, ns[c].NextSibling)

Children(ns, n) == SiblingsFrom(ns, ns[n].FirstChild)

isTextBlock(ns, n) ==
    \E i \in 1..Len(Children(ns, n)) :
        LET c == Children(ns, n)[i]
        IN ns[c].Type = TextNode /\ IndexFunc(ns[c].Data, isNotSpace) >= 0

isVeryFirstNode(ns, n) == ~hasParent(ns, n) /\ ~hasPrev(ns, n)
isVeryLastNode(ns, n) == ~hasParent(ns, n) /\ ~hasNext(ns, n)

isVoid(ns, n) == ns[n].Type = ElementNode /\ ns[n].Data \in voidElements

RECURSIVE getPrevElement(_, _)
getPrevElement(ns, n) ==
    IF n = NIL THEN NIL
    ELSE LET p == ns[n].PrevSibling
         IN IF isBlankText(ns, p) THEN getPrevElement(ns, p)
            ELSE IF p = NIL \/ ns[p].Type # ElementNode THEN NIL
            ELSE p

(***************************************************************************)
(* The tidy struct and the buffered writer                                 *)
(*                                                                         *)
(* s.indent, s.preBlock, s.textBlock, s.err are the fields of tidy;        *)
(* s.buf is the bytes.Buffer behind the bufio.Writer, s.left the number of *)
(* write calls the writer still accepts (-1: all of them), s.werr the      *)
(* writer's own sticky error.  s.log records every call of a node writer:  *)
(* the node, the tidy fields at the call, the part of s.buf it wrote and   *)
(* t.err when it returned.                                                 *)
(***************************************************************************)
inPreBlock(st) == st.preBlock # -1
inTextBlock(st) == st.textBlock # -1
inNormalBlock(st) == ~(inPreBlock(st) \/ inTextBlock(st))
atTextBlock(st) == st.textBlock = st.indent

\* w.Write, w.WriteByte, w.WriteString of the bufio.Writer
writerWrite(st, p) ==
    IF st.left = 0 THEN [st EXCEPT !.werr = TRUE, !.err = "write"]
    ELSE [st EXCEPT !.buf = @ \o p,
                    !.left = IF @ > 0 THEN @ - 1 ELSE @]

write(st, p) == IF st.err = NoErr THEN writerWrite(st, p) ELSE st
writeByte(st, c) == IF st.err = NoErr THEN writerWrite(st, <<c>>) ELSE st
writeString(st, str) == IF st.err = NoErr THEN writerWrite(st, str) ELSE st

\* writeIndentation that writes nothing
writeNoIndentation(st) == st

writeQuoted(st, str) ==
    LET q == IF ContainsQuote(str) THEN "'" ELSE "\""
    IN writeByte(writeString(writeByte(st, q), str), q)

\* for i := from; i < to; i++ { t.writeString(w, str) }
RECURSIVE writeTimes(_, _, _, _)
writeTimes(st, from, to, str) ==
    IF from >= to THEN st
    ELSE writeTimes(writeString(st, str), from + 1, to, str)

writeIndentation(st) == writeTimes(st, 0, st.indent, IndentUnit)

writeIndentationGuide(st, guide) ==
    IF st.indent >= 2
    THEN writeString(writeTimes(writeString(st, CommentOpen), 1, st.indent, guide),
                     GuideEnd)
    ELSE st

\* writeComment with the line break in every block but a pre block
writeCommentBreakInText(st, n) ==
    LET ns == st.nodes
        s1 == IF ~isVeryFirstNode(ns, n) /\ inNormalBlock(st)
              THEN writeIndentation(st) ELSE st
        s2 == writeString(writeString(writeString(s1, CommentOpen), ns[n].Data),
                          CommentClose)
    IN IF ~isVeryLastNode(ns, n) /\ ~inPreBlock(st)
       THEN writeByte(s2, "\n") ELSE s2

writeComment(st, n) ==
    LET ns == st.nodes
        s1 == IF ~isVeryFirstNode(ns, n) /\ inNormalBlock(st)
              THEN writeIndentation(st) ELSE st
        s2 == writeString(writeString(writeString(s1, CommentOpen), ns[n].Data),
                          CommentClose)
    IN IF ~isVeryLastNode(ns, n) /\ inNormalBlock(st)
       THEN writeByte(s2, "\n") ELSE s2

\* the last value the loop over n.Attr leaves for key
RECURSIVE attrVal(_, _)
attrVal(attrs, key) ==
    IF attrs = <<>> THEN <<>>
    ELSE LET a == attrs[Len(attrs)]
         IN IF a.Key = key THEN a.Val
            ELSE attrVal(SubSeq(attrs, 1, Len(attrs) - 1), key)

writeDoctype(st, n) ==
    LET nd == st.nodes[n]
        s1 == writeString(writeString(st, DoctypeOpen), nd.Data)
        p == attrVal(nd.Attr, keyPublic)
        sy == attrVal(nd.Attr, keySystem)
        s2 == IF p # <<>>
              THEN LET s3 == writeQuoted(writeString(s1, PublicWord), p)
                   IN IF sy # <<>>
                      THEN writeQuoted(writeString(s3, <<" ">>), sy) ELSE s3
              ELSE IF sy # <<>>
              THEN writeQuoted(writeString(s1, SystemWord), sy)
              ELSE s1
    IN writeString(s2, DoctypeEnd)

RECURSIVE writeAttrs(_, _)
writeAttrs(st, attrs) ==
    IF attrs = <<>> THEN st
    ELSE LET a == Head(attrs)
             s1 == writeByte(st, " ")
             s2 == IF a.Namespace # <<>>
                   THEN writeByte(writeString(s1, a.Namespace), ":") ELSE s1
             s3 == writeByte(writeString(s2, a.Key), "=")
         IN writeAttrs(writeQuoted(s3, EscapeString(a.Val)), Tail(attrs))

writeEl(st, n) ==
    LET ns == st.nodes
        s1 == IF ~isVeryFirstNode(ns, n)
              THEN IF ns[n].Data = tagPre
                   THEN IF ~isPreNode(ns, getPrevElement(ns, n))
                        THEN writeByte(writeIndentationGuide(st, GuideOpen), "\n")
                        ELSE st
                   ELSE IF ~inPreBlock(st) /\ (~inTextBlock(st) \/ atTextBlock(st))
                        THEN writeIndentation(st)
                        ELSE st
              ELSE st
        s2 == writeString(writeByte(s1, "<"), ns[n].Data)
        s3 == writeByte(writeAttrs(s2, ns[n].Attr), ">")
    IN IF inNormalBlock(st) /\ hasChild(ns, n) THEN writeByte(s3, "\n") ELSE s3

writeElClose(st, n) ==
    LET ns == st.nodes
        s1 == IF inNormalBlock(st) /\ hasChild(ns, n)
              THEN writeIndentation(st) ELSE st
        s2 == IF ~isVoid(ns, n)
              THEN writeByte(writeString(writeString(s1, CloseTagOpen), ns[n].Data), ">")
              ELSE s1
        s3 == IF ns[n].Data = tagPre /\ ~isPreNode(ns, ns[n].NextSibling)
              THEN writeIndentationGuide(writeByte(s2, "\n"), GuideClose)
              ELSE s2
    IN IF /\ ~isVeryLastNode(ns, n)
          /\ (ns[n].Data = tagPre \/ ~inPreBlock(st))
          /\ (~inTextBlock(st) \/ atTextBlock(st))
       THEN writeByte(s3, "\n") ELSE s3

\* writeText that writes the data as it is
writeTextVerbatim(st, n) == writeString(st, st.nodes[n].Data)

\* the for loop of writeText over the trimmed input
RECURSIVE collapseLoop(_, _)
collapseLoop(st, input) ==
    LET i == IndexFunc(input, IsSpace)
    IN IF i = -1 THEN write(st, input)
       ELSE IF i = 0
       THEN LET s1 == writeByte(st, " ")
                j == IndexFunc(input, isNotSpace)
            IN IF j = -1 THEN s1 ELSE collapseLoop(s1, SliceFrom(input, j))
       ELSE collapseLoop(write(st, SliceTo(input, i)), SliceFrom(input, i))

writeText(st, n) ==
    LET ns == st.nodes
        data == ns[n].Data
        input == TrimSpace(data)
    IN IF inPreBlock(st) THEN writeString(st, data)
       ELSE IF ~inTextBlock(st) THEN st
       ELSE IF Len(input) = 0 /\ (hasPrev(ns, n) \/ hasNext(ns, n))
       THEN writeByte(st, " ")
       \* rune(n.Data[0]), rune(n.Data[len(n.Data)-1]): one byte taken as a code point
       ELSE LET s1 == IF hasPrev(ns, n) /\ IsSpace(data[1])
                      THEN writeByte(st, " ") ELSE st
                deferred == hasNext(ns, n) /\ IsSpace(data[Len(data)])
                s2 == collapseLoop(s1, input)
            IN IF deferred THEN writeByte(s2, " ") ELSE s2

\* One call of a node writer, recorded in the log
Logged(st, op, n, after) ==
    [after EXCEPT !.log = Append(@,
        [op |-> op, n |-> n, indent |-> st.indent, pre |-> st.preBlock,
         text |-> st.textBlock, from |-> Len(st.buf), to |-> Len(after.buf),
         err |-> after.err])]

(***************************************************************************)
(* The parser the program calls: html.Parse and html.ParseFragment of      *)
(* golang.org/x/net/html, on the markup the renderer writes.  A tokenizer  *)
(* over characters (tags, attributes, comments, doctype, raw text          *)
(* elements, character references), then the tree construction with its    *)
(* insertion modes.                                                        *)
(***************************************************************************)
Letters ==
    {"a", "b", "c", "d", "e", "f", "g", "h", "i", "j", "k", "l", "m", "n",
     "o", "p", "q", "r", "s", "t", "u", "v", "w", "x", "y", "z"}

HasPrefixAt(str, pos, pat) ==
    /\ pos + Len(pat) - 1 <= Len(str)
    /\ SubSeq(str, pos, pos + Len(pat) - 1) = pat

\* first position >= pos where pat starts, or 0
IndexFrom(str, pos, pat) ==
    LET hits == {i \in pos..Len(str) : HasPrefixAt(str, i, pat)}
    IN IF hits = {} THEN 0 ELSE CHOOSE i \in hits : \A j \in hits : i <= j

\* first position >= pos holding a character of cs, or Len(str) + 1
IndexAnyFrom(str, pos, cs) ==
    LET hits == {i \in pos..Len(str) : str[i] \in cs}
    IN IF hits = {} THEN Len(str) + 1
       ELSE CHOOSE i \in hits : \A j \in hits : i <= j

\* first position >= pos holding no white space, or Len(str) + 1
SkipSpace(str, pos) ==
    LET hits == {i \in pos..Len(str) : isNotWhitespace(str[i])}
    IN IF hits = {} THEN Len(str) + 1
       ELSE CHOOSE i \in hits : \A j \in hits : i <= j

\* the character references html.EscapeString writes
CharRefs ==
    { [ref |-> <<"&", "a", "m", "p", ";">>, char |-> "&"],
      [ref |-> <<"&", "#", "3", "9", ";">>, char |-> "'"],
      [ref |-> <<"&", "#", "3", "4", ";">>, char |-> "\""],
      [ref |-> <<"&", "l", "t", ";">>, char |-> "<"],
      [ref |-> <<"&", "g", "t", ";">>, char |-> ">"] }

\* html.UnescapeString on those references
RECURSIVE UnescapeString(_)
UnescapeString(str) ==
    IF str = <<>> THEN <<>>
    ELSE LET found == {r \in CharRefs : HasPrefixAt(str, 1, r.ref)}
             one == IF found = {} THEN [ref |-> <<Head(str)>>, char |-> Head(str)]
                    ELSE CHOOSE r \in found : TRUE
         IN <<one.char>> \o UnescapeString(SliceFrom(str, Len(one.ref)))

\* elements whose content the tokenizer reads as text up to their end tag
RawTextTags == {tagTitle, tagNoscript, <<"s", "c", "r", "i", "p", "t">>,
                <<"s", "t", "y", "l", "e">>}

\* one attribute of a start tag at p: [attrs, next]
nextAttr(str, p) ==
    LET keyEnd == IndexAnyFrom(str, p, {"=", ">", "/", " ", "\n", "\t", "\r"})
        key == SubSeq(str, p, keyEnd - 1)
        q == SkipSpace(str, keyEnd)
        hasVal == q <= Len(str) /\ str[q] = "="
        v == SkipSpace(str, q + 1)
        quoted == hasVal /\ v <= Len(str) /\ str[v] \in {"\"", "'"}
        valEnd == IF ~hasVal \/ v > Len(str) THEN v
                  ELSE IF quoted THEN IndexAnyFrom(str, v + 1, {str[v]})
                  ELSE IndexAnyFrom(str, v, {">", " ", "\n", "\t", "\r"})
        val == IF ~hasVal THEN <<>>
               ELSE IF quoted THEN SubSeq(str, v + 1, valEnd - 1)
               ELSE SubSeq(str, v, valEnd - 1)
    IN [attrs |-> <<Attribute(key, UnescapeString(val))>>,
        next |-> IF ~hasVal THEN keyEnd ELSE IF quoted THEN valEnd + 1 ELSE valEnd]

\* the attributes of a start tag from pos on: [attrs, next], next past the ">"
RECURSIVE TokenizeAttrs(_, _)
attrsAfter(one, rest) == [attrs |-> one.attrs \o rest.attrs, next |-> rest.next]

attrsFrom(str, one) == attrsAfter(one, TokenizeAttrs(str, one.next))

attrsAt(str, p) ==
    IF p > Len(str) THEN [attrs |-> <<>>, next |-> p]
    ELSE IF str[p] = ">" THEN [attrs |-> <<>>, next |-> p + 1]
    ELSE attrsFrom(str, IF str[p] = "/" THEN [attrs |-> <<>>, next |-> p + 1]
                        ELSE nextAttr(str, p))

TokenizeAttrs(str, pos) == attrsAt(str, SkipSpace(str, pos))

Token(kind, data, attrs) == [kind |-> kind, data |-> data, attrs |-> attrs]

\* the token of str at pos: [toks: it, or nothing for an empty raw text; next:
\* the position behind it; raw: the raw text element it opens].  raw is the
\* raw text element just opened.
nextToken(str, pos, raw) ==
    IF raw # <<>>
    THEN LET e == IndexFrom(str, pos, CloseTagOpen \o raw)
             stop == IF e = 0 THEN Len(str) + 1 ELSE e
             body == SubSeq(str, pos, stop - 1)
             data == IF raw = tagTitle THEN UnescapeString(body) ELSE body
         IN [toks |-> IF body = <<>> THEN <<>> ELSE <<Token("text", data, <<>>)>>,
             next |-> stop, raw |-> <<>>]
    ELSE IF HasPrefixAt(str, pos, CommentOpen)
    THEN LET e == IndexFrom(str, pos + 4, CommentClose)
             stop == IF e = 0 THEN Len(str) + 1 ELSE e
         IN [toks |-> <<Token("comment", SubSeq(str, pos + 4, stop - 1), <<>>)>>,
             next |-> stop + 3, raw |-> <<>>]
    ELSE IF HasPrefixAt(str, pos, SliceTo(DoctypeOpen, 9))
    THEN LET stop == IndexAnyFrom(str, pos, {">"})
         IN [toks |-> <<Token("doctype", TrimSpace(SubSeq(str, pos + 9, stop - 1)), <<>>)>>,
             next |-> stop + 1, raw |-> <<>>]
    ELSE IF HasPrefixAt(str, pos, CloseTagOpen) /\ pos + 2 <= Len(str)
            /\ str[pos + 2] \in Letters
    THEN LET stop == IndexAnyFrom(str, pos, {">"})
             nameEnd == IndexAnyFrom(str, pos + 2, {">", "/", " ", "\n", "\t", "\r"})
         IN [toks |-> <<Token("end", SubSeq(str, pos + 2, nameEnd - 1), <<>>)>>,
             next |-> stop + 1, raw |-> <<>>]
    ELSE IF str[pos] = "<" /\ pos + 1 <= Len(str) /\ str[pos + 1] \in Letters
    THEN LET nameEnd == IndexAnyFrom(str, pos, {">", "/", " ", "\n", "\t", "\r"})
             name == SubSeq(str, pos + 1, nameEnd - 1)
             at == TokenizeAttrs(str, nameEnd)
         IN [toks |-> <<Token("start", name, at.attrs)>>,
             next |-> at.next, raw |-> IF name \in RawTextTags THEN name ELSE <<>>]
    ELSE LET stop == IndexAnyFrom(str, pos + 1, {"<"})
         IN [toks |-> <<Token("text", UnescapeString(SubSeq(str, pos, stop - 1)), <<>>)>>,
             next |-> stop, raw |-> <<>>]

\* the tokens of str from pos on
RECURSIVE Tokenize(_, _, _)
tokensFrom(str, t) == t.toks \o Tokenize(str, t.next, t.raw)

Tokenize(str, pos, raw) ==
    IF pos > Len(str) THEN <<>> ELSE tokensFrom(str, nextToken(str, pos, raw))

\* Node.AppendChild: a new node (id Len(ns) + 1) as the last child of p
LastChild(ns, p) ==
    LET cs == Children(ns, p) IN IF cs = <<>> THEN NIL ELSE cs[Len(cs)]

AppendChild(ns, p, type, data, attrs) ==
    LET id == Len(ns) + 1
        last == LastChild(ns, p)
        ns1 == Append(ns, [Type |-> type, Data |-> data, Attr |-> attrs,
                           Parent |-> p, FirstChild |-> NIL,
                           PrevSibling |-> last, NextSibling |-> NIL])
    IN IF last = NIL THEN [ns1 EXCEPT ![p].FirstChild = id]
       ELSE [ns1 EXCEPT ![last].NextSibling = id]

\* The parser: ps.ns the tree, ps.oe the stack of open elements (top last),
\* ps.mode the insertion mode, ps.orig the mode a raw text element returns to
Top(ps) == ps.oe[Len(ps.oe)]

addElement(ps, tok) ==
    [ps EXCEPT !.ns = AppendChild(ps.ns, Top(ps), ElementNode, tok.data, tok.attrs),
               !.oe = Append(@, Len(ps.ns) + 1)]

addVoid(ps, tok) ==
    [ps EXCEPT !.ns = AppendChild(ps.ns, Top(ps), ElementNode, tok.data, tok.attrs)]

addComment(ps, parent, tok) ==
    [ps EXCEPT !.ns = AppendChild(ps.ns, parent, CommentNode, tok.data, <<>>)]

addText(ps, d) ==
    LET last == LastChild(ps.ns, Top(ps))
    IN IF last # NIL /\ ps.ns[last].Type = TextNode
       THEN [ps EXCEPT !.ns[last].Data = @ \o d]
       ELSE [ps EXCEPT !.ns = AppendChild(ps.ns, Top(ps), TextNode, d, <<>>)]

pop(ps) == [ps EXCEPT !.oe = SubSeq(@, 1, Len(@) - 1)]

InStack(ps, tag) == \E i \in 1..Len(ps.oe) : ps.ns[ps.oe[i]].Data = tag

\* pop the open elements down to and including the topmost tag element
popUntil(ps, tag) ==
    IF ~InStack(ps, tag) THEN ps
    ELSE LET i == CHOOSE i \in 1..Len(ps.oe) :
                     /\ ps.ns[ps.oe[i]].Data = tag
                     /\ \A j \in (i + 1)..Len(ps.oe) : ps.ns[ps.oe[j]].Data # tag
         IN [ps EXCEPT !.oe = SubSeq(@, 1, i - 1)]

implied(tag) == [kind |-> "start", data |-> tag, attrs |-> <<>>]

\* start tags that close an open p element
ClosesP == {tagDiv, tagP, tagPre, tagH1, <<"h", "r">>, <<"u", "l">>}
HeadVoidTags == {<<"b", "a", "s", "e">>, <<"l", "i", "n", "k">>, <<"m", "e", "t", "a">>}

LeadingSpace(d) ==
    LET i == IndexFunc(d, isNotWhitespace) IN IF i = -1 THEN d ELSE SliceTo(d, i)

AfterLeadingSpace(d) ==
    LET i == IndexFunc(d, isNotWhitespace) IN IF i = -1 THEN <<>> ELSE SliceFrom(d, i)

Rest(tok) ==
    IF tok.kind = "text" THEN [tok EXCEPT !.data = AfterLeadingSpace(tok.data)] ELSE tok

BlankText(tok) == tok.kind = "text" /\ AfterLeadingSpace(tok.data) = <<>>

\* the leading white space of a text token goes in as text, the rest goes on
withLeadingSpace(ps, tok) ==
    IF tok.kind = "text" /\ LeadingSpace(tok.data) # <<>>
    THEN addText(ps, LeadingSpace(tok.data)) ELSE ps

\* one token in each insertion mode
inBodyIM(ps, tok) ==
    IF tok.kind = "text"
    THEN LET top == Top(ps)
             d == IF /\ ps.ns[top].Data = tagPre
                     /\ ps.ns[top].FirstChild = NIL
                     /\ tok.data # <<>> /\ tok.data[1] = "\n"
                  THEN Tail(tok.data) ELSE tok.data
         IN IF d = <<>> THEN ps ELSE addText(ps, d)
    ELSE IF tok.kind = "comment" THEN addComment(ps, Top(ps), tok)
    ELSE IF tok.kind = "doctype" THEN ps
    ELSE IF tok.kind = "start"
    THEN IF tok.data \in {tagHtml, tagBody, tagHead} THEN ps
         ELSE IF tok.data \in RawTextTags
         THEN [addElement(ps, tok) EXCEPT !.mode = "text", !.orig = "inBody"]
         ELSE LET ps1 == IF tok.data \in ClosesP THEN popUntil(ps, tagP) ELSE ps
              IN IF tok.data \in voidElements THEN addVoid(ps1, tok)
                 ELSE addElement(ps1, tok)
    ELSE IF tok.data = tagBody
    THEN IF InStack(ps, tagBody) THEN [ps EXCEPT !.mode = "afterBody"] ELSE ps
    ELSE IF tok.data = tagHtml
    THEN IF InStack(ps, tagBody) THEN [ps EXCEPT !.mode = "afterAfterBody"] ELSE ps
    ELSE popUntil(ps, tok.data)

afterHeadIM(ps, tok) ==
    IF BlankText(tok) THEN addText(ps, tok.data)
    ELSE IF tok.kind = "comment" THEN addComment(ps, Top(ps), tok)
    ELSE IF tok.kind = "start" /\ tok.data \in {tagHtml, tagHead} THEN ps
    ELSE IF tok.kind = "start" /\ tok.data = tagBody
    THEN [addElement(ps, tok) EXCEPT !.mode = "inBody"]
    ELSE IF tok.kind = "end" /\ tok.data \notin {tagBody, tagHtml, tagBr} THEN ps
    ELSE inBodyIM([addElement(withLeadingSpace(ps, tok), implied(tagBody))
                      EXCEPT !.mode = "inBody"],
                  Rest(tok))

inHeadIM(ps, tok) ==
    IF BlankText(tok) THEN addText(ps, tok.data)
    ELSE IF tok.kind = "comment" THEN addComment(ps, Top(ps), tok)
    ELSE IF tok.kind = "start" /\ tok.data \in {tagHtml, tagHead} THEN ps
    ELSE IF tok.kind = "start" /\ tok.data \in HeadVoidTags THEN addVoid(ps, tok)
    ELSE IF tok.kind = "start" /\ tok.data \in RawTextTags
    THEN [addElement(ps, tok) EXCEPT !.mode = "text", !.orig = "inHead"]
    ELSE IF tok.kind = "end" /\ tok.data = tagHead
    THEN [pop(ps) EXCEPT !.mode = "afterHead"]
    ELSE IF tok.kind = "end" /\ tok.data \notin {tagBody, tagHtml, tagBr} THEN ps
    ELSE afterHeadIM([pop(withLeadingSpace(ps, tok)) EXCEPT !.mode = "afterHead"],
                     Rest(tok))

beforeHeadIM(ps, tok) ==
    IF BlankText(tok) THEN ps
    ELSE IF tok.kind = "comment" THEN addComment(ps, Top(ps), tok)
    ELSE IF tok.kind = "start" /\ tok.data = tagHtml THEN ps
    ELSE IF tok.kind = "start" /\ tok.data = tagHead
    THEN [addElement(ps, tok) EXCEPT !.mode = "inHead"]
    ELSE inHeadIM([addElement(ps, implied(tagHead)) EXCEPT !.mode = "inHead"],
                  Rest(tok))

beforeHTMLIM(ps, tok) ==
    IF BlankText(tok) THEN ps
    ELSE IF tok.kind = "comment" THEN addComment(ps, 1, tok)
    ELSE IF tok.kind = "doctype"
    THEN [ps EXCEPT !.ns = AppendChild(ps.ns, 1, DoctypeNode, tok.data, <<>>),
                    !.mode = "beforeHtml"]
    ELSE IF tok.kind = "start" /\ tok.data = tagHtml
    THEN [addElement(ps, tok) EXCEPT !.mode = "beforeHead"]
    ELSE beforeHeadIM([addElement(ps, implied(tagHtml)) EXCEPT !.mode = "beforeHead"],
                      Rest(tok))

textIM(ps, tok) ==
    IF tok.kind = "text" THEN addText(ps, tok.data)
    ELSE [pop(ps) EXCEPT !.mode = ps.orig]

afterBodyIM(ps, tok) ==
    IF BlankText(tok) \/ tok.kind = "comment" \/ (tok.kind = "end" /\ tok.data = tagHtml)
    THEN IF tok.kind = "text" THEN addText(ps, tok.data)
         ELSE IF tok.kind = "end" THEN [ps EXCEPT !.mode = "afterAfterBody"]
         ELSE addComment(ps, IF ps.mode = "afterBody" THEN ps.oe[2] ELSE 1, tok)
    ELSE inBodyIM([ps EXCEPT !.mode = "inBody"], tok)

\* one token through the insertion mode the parser is in
treeStep(ps, tok) ==
    CASE ps.mode = "text" -> textIM(ps, tok)
      [] ps.mode \in {"initial", "beforeHtml"} -> beforeHTMLIM(ps, tok)
      [] ps.mode = "beforeHead" -> beforeHeadIM(ps, tok)
      [] ps.mode = "inHead" -> inHeadIM(ps, tok)
      [] ps.mode = "afterHead" -> afterHeadIM(ps, tok)
      [] ps.mode = "inBody" -> inBodyIM(ps, tok)
      [] OTHER -> afterBodyIM(ps, tok)

RECURSIVE treeBuild(_, _)
treeBuild(ps, toks) ==
    IF toks = <<>> THEN ps ELSE treeBuild(treeStep(ps, Head(toks)), Tail(toks))

\* at the end of the input the elements never met are implied
treeEnd(ps) ==
    CASE ps.mode \in {"initial", "beforeHtml"} ->
            addElement(pop(addElement(addElement(ps, implied(tagHtml)), implied(tagHead))),
                       implied(tagBody))
      [] ps.mode = "beforeHead" ->
            addElement(pop(addElement(ps, implied(tagHead))), implied(tagBody))
      [] ps.mode = "inHead" -> addElement(pop(ps), implied(tagBody))
      [] ps.mode = "afterHead" -> addElement(ps, implied(tagBody))
      [] OTHER -> ps

EmptyDocument ==
    <<[Type |-> DocumentNode, Data |-> <<>>, Attr |-> <<>>, Parent |-> NIL,
       FirstChild |-> NIL, PrevSibling |-> NIL, NextSibling |-> NIL]>>

\* html.Parse: the tree (a DocumentNode, id 1) of a document
Parse(str) ==
    treeEnd(treeBuild([ns |-> EmptyDocument, oe |-> <<1>>, mode |-> "initial",
                       orig |-> "initial"],
                      Tokenize(str, 1, <<>>))).ns

\* html.ParseFragment(r, context): the parser starts under a root html
\* element (id 2) in the insertion mode the context element resets it to; the
\* nodes returned are the children of [root] in [ns].  context is the tag of
\* the context element, <<>> for a nil context
fragmentStart(context) ==
    [ns |-> AppendChild(EmptyDocument, 1, ElementNode, tagHtml, <<>>),
     oe |-> IF context = <<>> THEN <<1, 2>> ELSE <<2>>,
     mode |-> IF context = <<>> THEN "beforeHead"
              ELSE IF context = tagHead THEN "inHead" ELSE "inBody",
     orig |-> "inBody"]

ParseFragment(str, context) ==
    [ns |-> treeEnd(treeBuild(fragmentStart(context), Tokenize(str, 1, <<>>))).ns,
     root |-> IF context = <<>> THEN 1 ELSE 2]

(***************************************************************************)
(* tidy.render, one step at a time                                         *)
(***************************************************************************)
\* newTidy, and the locals of render at its first line
newTidy(ns, left, fragErr) ==
    [nodes |-> ns, n |-> 1,
     indent |-> 0, preBlock |-> -1, textBlock |-> -1, err |-> NoErr,
     buf |-> <<>>, left |-> left, werr |-> FALSE, fragErr |-> fragErr,
     log |-> <<>>, pruned |-> {}]

\* for s := n; s != nil; s = s.NextSibling { s.Parent = nil }
RECURSIVE detach(_, _)
detach(ns, c) ==
    IF c = NIL THEN ns
    ELSE detach([ns EXCEPT ![c].Parent = NIL], ns[c].NextSibling)

\* Throw away the document node
stripDocument(st) ==
    IF st.nodes[st.n].Type = DocumentNode
    THEN LET first == st.nodes[st.n].FirstChild
         IN [st EXCEPT !.n = first, !.nodes = detach(st.nodes, first)]
    ELSE st

\* the loop without its pruning
pruneNothing(st) == st

\* Remove blank text nodes when not in a text/pre block
RECURSIVE pruneLoop(_)
pruneLoop(st) ==
    LET sib == st.nodes[st.n].NextSibling
    IN IF isBlankText(st.nodes, sib)
       THEN pruneLoop([st EXCEPT !.nodes[st.n].NextSibling = st.nodes[sib].NextSibling,
                                 !.pruned = @ \cup {sib}])
       ELSE st

pruneBlank(st) == IF inNormalBlock(st) THEN pruneLoop(st) ELSE st

RECURSIVE findContext(_, _)
findContext(ns, n) ==
    IF n = NIL THEN NIL
    ELSE IF ns[n].Type = ElementNode /\ ns[n].Data \in {tagBody, tagHead} THEN n
    ELSE findContext(ns, ns[n].Parent)

\* a pointer of a parsed fragment, moved behind the nodes of the tree
Moved(ptr, off) == IF ptr = NIL THEN NIL ELSE ptr + off

\* the loop of parseTextNode over the nodes ParseFragment returned: each gets
\* n as its parent, the first becomes n.FirstChild, the rest are chained
graftChildren(ns, n, parsed) ==
    LET off == Len(ns)
        frag == parsed.ns
        kids == Children(frag, parsed.root)
        moved == [i \in 1..Len(frag) |->
                    [frag[i] EXCEPT !.Parent = IF @ = parsed.root THEN n
                                               ELSE Moved(@, off),
                                    !.FirstChild = Moved(@, off),
                                    !.PrevSibling = Moved(@, off),
                                    !.NextSibling = Moved(@, off)]]
        all == ns \o moved
    IN IF kids = <<>> THEN ns
       ELSE [all EXCEPT ![n].FirstChild = kids[1] + off]

PanicErr == "panic: nil pointer dereference"

\* parseTextNode: [nodes, err]
parseTextNode(st, n) ==
    LET ns == st.nodes
        context == findContext(ns, n)
        first == ns[n].FirstChild
    IN IF first = NIL THEN [nodes |-> ns, err |-> PanicErr]
       ELSE IF st.fragErr THEN [nodes |-> ns, err |-> "parse"]
       ELSE [nodes |-> graftChildren(ns, n,
                         ParseFragment(ns[first].Data,
                                       IF context = NIL THEN <<>> ELSE ns[context].Data)),
             err |-> NoErr]

\* case html.ElementNode, up to the descent or the close of a childless element
\* the descent without the close of a childless element
descendOrLeaveOpen(st, n) ==
    IF st.nodes[n].FirstChild # NIL
    THEN [st EXCEPT !.n = st.nodes[n].FirstChild, !.indent = @ + 1]
    ELSE st

\* the close of the element without a descent to its children
closeWithoutDescent(st, n) == Logged(st, "close", n, writeElClose(st, n))

\* Descend to the first child, or close a childless element
descendOrClose(st, n) ==
    IF st.nodes[n].FirstChild # NIL
    THEN [st EXCEPT !.n = st.nodes[n].FirstChild, !.indent = @ + 1]
    ELSE Logged(st, "close", n, writeElClose(st, n))

openElement(st, n) == descendOrClose(Logged(st, "open", n, writeEl(st, n)), n)

\* the start of a text block whatever block is open
startTextBlockAlways(st, n) ==
    IF isTextBlock(st.nodes, n) THEN [st EXCEPT !.textBlock = st.indent] ELSE st

\* Check if this is the start of a text block
startTextBlock(st, n) ==
    IF inNormalBlock(st) /\ isTextBlock(st.nodes, n)
    THEN [st EXCEPT !.textBlock = st.indent] ELSE st

\* a nil dereference in parseTextNode ends the walk where it stands
unlessPanic(st, n) ==
    IF st.err = PanicErr THEN st ELSE openElement(startTextBlock(st, n), n)

reparsed(st, re) == [st EXCEPT !.nodes = re.nodes, !.err = re.err]

\* noscript is re-parsed; a pre element outside a pre block starts one
startPreBlock(st, n) ==
    IF st.nodes[n].Data = tagNoscript
    THEN Logged(st, "reparse", n, reparsed(st, parseTextNode(st, n)))
    ELSE IF st.nodes[n].Data = tagPre /\ ~inPreBlock(st)
    THEN [st EXCEPT !.preBlock = st.indent]
    ELSE st

visitElement(st) == unlessPanic(startPreBlock(st, st.n), st.n)

\* after the switch: if t.err != nil { return }, else the inner loop
AfterSwitch(st) == IF st.err # NoErr THEN "failed" ELSE "ascend"

\* the element case ends in "continue": the check of t.err is skipped
descends(st, after) == after.err # PanicErr /\ after.n # st.n

afterElement(st, after) ==
    IF after.err = PanicErr THEN "panic"
    ELSE IF descends(st, after) THEN "visit"
    ELSE AfterSwitch(after)

\* the move upwards without t.indent--
moveUpKeepIndent(st) ==
    LET p == st.nodes[st.n].Parent
        s1 == [st EXCEPT !.n = p]
        s2 == IF p # NIL /\ s1.nodes[p].Type = ElementNode
              THEN Logged(s1, "close", p, writeElClose(s1, p)) ELSE s1
    IN s2

\* Move upwards to the parent
moveUp(st) ==
    LET p == st.nodes[st.n].Parent
        s1 == [st EXCEPT !.n = p, !.indent = @ - 1]
        s2 == IF p # NIL /\ s1.nodes[p].Type = ElementNode
              THEN Logged(s1, "close", p, writeElClose(s1, p)) ELSE s1
        s3 == IF s2.indent = s2.textBlock THEN [s2 EXCEPT !.textBlock = -1] ELSE s2
    IN IF s3.indent = s3.preBlock THEN [s3 EXCEPT !.preBlock = -1] ELSE s3

\* err = w.Flush()
flush(st) == IF st.werr THEN [st EXCEPT !.err = "write"] ELSE st

\* the cases of the switch on n.Type that write one node
visitText(st) == Logged(st, "text", st.n, writeText(st, st.n))
visitComment(st) == Logged(st, "comment", st.n, writeComment(st, st.n))
visitDoctype(st) == Logged(st, "doctype", st.n, writeDoctype(st, st.n))
\* case html.DocumentNode, html.ErrorNode, default
visitInvalid(st) == [st EXCEPT !.err = "cannot render"]

\* one pass through the head of the outer loop: the pruning, then the switch
visit(st) ==
    CASE st.nodes[st.n].Type = ElementNode -> visitElement(pruneBlank(st))
      [] st.nodes[st.n].Type = TextNode -> visitText(pruneBlank(st))
      [] st.nodes[st.n].Type = CommentNode -> visitComment(pruneBlank(st))
      [] st.nodes[st.n].Type = DoctypeNode -> visitDoctype(pruneBlank(st))
      [] OTHER -> visitInvalid(pruneBlank(st))

afterVisit(st, after) ==
    IF st.nodes[st.n].Type = ElementNode THEN afterElement(st, after)
    ELSE AfterSwitch(after)

\* one pass through the inner loop: across to the next sibling, or upwards
ascend(st) ==
    IF st.nodes[st.n].NextSibling # NIL
    THEN [st EXCEPT !.n = st.nodes[st.n].NextSibling]
    ELSE moveUp(st)

afterAscend(st, after) ==
    IF st.nodes[st.n].NextSibling # NIL THEN "visit"
    ELSE IF after.n = NIL THEN "flush" ELSE "ascend"

\* render up to the loop, and where it goes from there
renderStart(ns, left, fragErr) == stripDocument(newTidy(ns, left, fragErr))
afterStart(st) == IF st.n = NIL THEN "flush" ELSE "visit"

\* the end of render: if t.err != nil { return }; err = w.Flush()
renderEnd(st) == IF st.err # NoErr THEN st ELSE flush(st)
afterEnd(st) == IF st.err # NoErr THEN "failed" ELSE "copy"

\* tidy.render as a function of the tree: the loops run to their end, then
\* (out, err) as render returns them
RECURSIVE walk(_, _)
walkOn(st, p, after) ==
    walk(after, IF p = "visit" THEN afterVisit(st, after) ELSE afterAscend(st, after))

walk(st, p) ==
    IF p \in {"visit", "ascend"}
    THEN walkOn(st, p, IF p = "visit" THEN visit(st) ELSE ascend(st))
    ELSE [s |-> st, pc |-> p]

returned(w) ==
    IF w.pc = "panic" THEN [out |-> <<>>, err |-> PanicErr]
    ELSE IF w.pc = "failed" \/ renderEnd(w.s).err # NoErr
    THEN [out |-> <<>>, err |-> renderEnd(w.s).err]
    ELSE [out |-> renderEnd(w.s).buf, err |-> NoErr]

walkFrom(st) == walk(st, afterStart(st))

render(ns) == returned(walkFrom(renderStart(ns, -1, FALSE)))

(***************************************************************************)
(* The documents Copy is run on                                            *)
(***************************************************************************)
\* body has at most MaxKids children, each one of Items
MaxKids == 2

txtWord == <<"a">>
txtBlank == <<" ", "\n">>
txtPadded == <<"\n", "a", " ", " ", "b", " ">>
txtNoBreak == NoBreakSpace \o <<"a">> \o NoBreakSpace \o <<"b">>
txtMarkup == <<"<", "p", ">", "a", "<", "/", "p", ">">>

\* the children body is filled from
Items ==
    { Txt(txtPadded),
      Txt(txtBlank),
      Cmt(<<"c">>),
      El(tagBr, <<>>),
      ElA(tagImg, <<Attribute(<<"a">>, <<"x", "\"">>), Attribute(<<"b">>, <<"y", "'">>)>>, <<>>),
      El(tagDiv, <<El(tagDiv, <<Cmt(<<"c">>), El(tagP, <<Txt(txtWord)>>)>>), Txt(txtBlank)>>),
      El(tagP, <<Txt(txtPadded)>>),
      El(tagP, <<El(tagBr, <<>>)>>),
      El(tagPre, <<Txt(<<"\n", " ", "x">>)>>),
      El(tagPre, <<>>),
      El(tagDiv, <<El(tagPre, <<Txt(txtWord)>>), Txt(txtBlank), El(tagPre, <<Txt(txtWord)>>)>>),
      El(tagPre, <<Txt(txtWord), El(tagPre, <<Txt(txtWord)>>), Cmt(<<"c">>)>>),
      El(tagSpan, <<Txt(<<"a", " ">>), El(tagB, <<Txt(txtWord)>>), Txt(txtBlank),
                    Cmt(<<"c">>), El(tagBr, <<>>)>>),
      El(tagSpan, <<Txt(txtWord), El(tagPre, <<Txt(txtWord)>>), Txt(txtBlank),
                    El(tagPre, <<Txt(txtWord)>>), Cmt(<<"c">>)>>),
      El(tagSpan, <<El(tagB, <<Txt(txtWord)>>), Txt(txtNoBreak), El(tagBr, <<>>),
                    Txt(txtPadded), El(tagBr, <<>>)>>),
      El(tagNoscript, <<Txt(txtMarkup)>>),
      El(tagNoscript, <<>>),
      \* a node of a type the switch of render rejects
      [t |-> ErrorNode, d |-> <<>>, a |-> <<>>, k |-> <<>>] }

RECURSIVE SeqsUpTo(_, _)
SeqsUpTo(S, k) ==
    IF k = 0 THEN {<<>>}
    ELSE LET shorter == SeqsUpTo(S, k - 1)
         IN shorter \cup {Append(q, x) : q \in {r \in shorter : Len(r) = k - 1}, x \in S}

HtmlOf(headKids, bodyKids) ==
    El(tagHtml, <<El(tagHead, headKids), El(tagBody, bodyKids)>>)

\* the tree of the package's example
ExampleTop ==
    <<El(tagHtml,
         <<El(tagHead, <<El(tagTitle, <<Txt(<<"d", "e", "m", "o">>)>>)>>),
           El(tagBody,
              <<El(tagDiv,
                   <<El(tagH1, <<Txt(<<"t", "h", "i", "s", " ", "i", "s", " ", "a", " ",
                                       "d", "e", "m", "o">>)>>),
                     El(tagP, <<Txt(<<"\n", "o", "k", "\n">>)>>),
                     El(tagDiv,
                        <<El(tagSpan, <<Txt(<<"t", "h", "i", "s", " ", "w", "i", "l", "l",
                                              " ", "d", "o">>)>>)>>)>>)>>)>>)>>

\* a doctype and comments around the html element
FramedTop ==
    <<[t |-> DoctypeNode, d |-> tagHtml, a |-> <<>>, k |-> <<>>],
      Cmt(<<"c">>), HtmlOf(<<>>, <<El(tagP, <<Txt(txtWord)>>)>>), Cmt(<<"c">>)>>

\* the parser joins adjacent text into one text node
NoAdjacentText(kids) ==
    \A i \in 1..(Len(kids) - 1) : ~(kids[i].t = TextNode /\ kids[i + 1].t = TextNode)

Tops ==
    {<<HtmlOf(<<>>, kids)>> : kids \in {q \in SeqsUpTo(Items, MaxKids) : NoAdjacentText(q)}}
        \cup {ExampleTop, FramedTop}

\* the faults of the collaborators: the reader of html.Parse fails, the
\* writer fails at its (left + 1)-th call, html.ParseFragment fails
NoFault == [parseErr |-> FALSE, left |-> -1, fragErr |-> FALSE]
\* a failing writer accepts at most MaxLeft calls: with 16 it fails at the
\* latest in the last call of the open tag of body
MaxLeft == 16
Faults ==
    {[NoFault EXCEPT !.parseErr = TRUE], [NoFault EXCEPT !.fragErr = TRUE]}
        \cup {[NoFault EXCEPT !.left = k] : k \in 0..MaxLeft}
        \cup {[NoFault EXCEPT !.left = k, !.fragErr = TRUE] : k \in 0..MaxLeft}

(***************************************************************************)
(* Copy and the loop of tidy.render as a state machine                     *)
(***************************************************************************)
Idle == newTidy(EmptyDocument, -1, FALSE)

Init ==
    /\ \E top \in Tops, f \in {NoFault} \cup Faults :
          /\ f # NoFault => Len(top[1].k) = 2 /\ Len(top[1].k[2].k) <= 1
          /\ src = [doc |-> DocumentOf(top), fault |-> f]
    /\ pc = "parse"
    /\ s = Idle
    /\ dst = <<>>
    /\ ret = NoErr

\* node, err := html.Parse(src); if err != nil { return err }
ParseFails ==
    /\ pc = "parse"
    /\ src.fault.parseErr
    /\ ret' = "parse"
    /\ pc' = "done"
    /\ UNCHANGED <<src, s, dst>>

\* t := newTidy(); t.render(node) up to the loop
RenderStart ==
    /\ pc = "parse"
    /\ ~src.fault.parseErr
    /\ s' = renderStart(src.doc, src.fault.left, src.fault.fragErr)
    /\ pc' = afterStart(s')
    /\ UNCHANGED <<src, dst, ret>>

Visiting(type) ==
    pc = "visit" /\ s.nodes[s.n].Type = type

VisitElement ==
    /\ Visiting(ElementNode)
    /\ s' = visit(s)
    /\ pc' = afterVisit(s, s')
    /\ UNCHANGED <<src, dst, ret>>

VisitText ==
    /\ Visiting(TextNode)
    /\ s' = visit(s)
    /\ pc' = afterVisit(s, s')
    /\ UNCHANGED <<src, dst, ret>>

VisitComment ==
    /\ Visiting(CommentNode)
    /\ s' = visit(s)
    /\ pc' = afterVisit(s, s')
    /\ UNCHANGED <<src, dst, ret>>

VisitDoctype ==
    /\ Visiting(DoctypeNode)
    /\ s' = visit(s)
    /\ pc' = afterVisit(s, s')
    /\ UNCHANGED <<src, dst, ret>>

\* case html.DocumentNode, html.ErrorNode, default
VisitInvalid ==
    /\ pc = "visit"
    /\ s.nodes[s.n].Type \notin {ElementNode, TextNode, CommentNode, DoctypeNode}
    /\ s' = visit(s)
    /\ pc' = afterVisit(s, s')
    /\ UNCHANGED <<src, dst, ret>>

\* Move across to the next sibling if there is one
NextSibling ==
    /\ pc = "ascend"
    /\ s.nodes[s.n].NextSibling # NIL
    /\ s' = ascend(s)
    /\ pc' = afterAscend(s, s')
    /\ UNCHANGED <<src, dst, ret>>

\* Move upwards to the parent
MoveUp ==
    /\ pc = "ascend"
    /\ s.nodes[s.n].NextSibling = NIL
    /\ s' = ascend(s)
    /\ pc' = afterAscend(s, s')
    /\ UNCHANGED <<src, dst, ret>>

\* the end of render: if t.err != nil { return }; err = w.Flush()
RenderEnd ==
    /\ pc = "flush"
    /\ s' = renderEnd(s)
    /\ pc' = afterEnd(s')
    /\ UNCHANGED <<src, dst, ret>>

\* Copy handing the buffer to dst before it looks at the error
RenderFailedAfterCopy ==
    /\ pc = "failed"
    /\ dst' = dst \o s.buf
    /\ ret' = s.err
    /\ pc' = "done"
    /\ UNCHANGED <<src, s>>

\* Copy: b, err := t.render(node); if err != nil { return err }
RenderFailed ==
    /\ pc = "failed"
    /\ ret' = s.err
    /\ pc' = "done"
    /\ UNCHANGED <<src, s, dst>>

\* Copy: _, err = io.Copy(dst, bytes.NewReader(b)); return err
CopyOut ==
    /\ pc = "copy"
    /\ dst' = dst \o s.buf
    /\ ret' = NoErr
    /\ pc' = "done"
    /\ UNCHANGED <<src, s>>

Next ==
    \/ ParseFails
    \/ RenderStart
    \/ VisitElement
    \/ VisitText
    \/ VisitComment
    \/ VisitDoctype
    \/ VisitInvalid
    \/ NextSibling
    \/ MoveUp
    \/ RenderEnd
    \/ RenderFailed
    \/ CopyOut

Spec == Init /\ [][Next]_vars

\* Copy has returned, or the nil dereference has ended the program
Ended == pc \in {"done", "panic"}

\* the steps of render from its first line to the end of its loops
Walk ==
    \/ RenderStart
    \/ VisitElement
    \/ VisitText
    \/ VisitComment
    \/ VisitDoctype
    \/ VisitInvalid
    \/ NextSibling
    \/ MoveUp

\* one of the steps of Walk is possible: the guards of RenderStart, of the
\* five visits (one for each value of n.Type) and of the two moves
Walking == (pc = "parse" /\ ~src.fault.parseErr) \/ pc \in {"visit", "ascend"}

\* Copy is one sequential call: as long as a step is possible one is taken
WalkFairness == WF_vars(Next)

\* Spec under WalkFairness.  For the steps of Walk the weak fairness is
\* written out with the state predicate Walking for ENABLED <<Walk>>_vars,
\* which it is equal to, every step of Walk changing pc or s.
FairSpec ==
    /\ Spec
    /\ WF_vars(ParseFails)
    /\ WF_vars(RenderEnd)
    /\ WF_vars(RenderFailed)
    /\ WF_vars(CopyOut)
    /\ ([]<>(~Walking) \/ []<><<Walk>>_vars)

(***************************************************************************)
(* Properties                                                              *)
(***************************************************************************)
\* Copy has returned nil: the walk ended without error and dst holds the output
Finished == pc = "done" /\ ret = NoErr

\* the bytes a logged writer call put into the buffer
Seg(e) == SubSeq(s.buf, e.from + 1, e.to)

Contains(str, pat) == \E i \in 1..(Len(str) + 1) : HasPrefixAt(str, i, pat)

\* the number of spaces str begins with
LeadingSpaces(str) ==
    IF \A i \in 1..Len(str) : str[i] = " " THEN Len(str)
    ELSE (CHOOSE i \in 1..Len(str) : str[i] # " " /\ \A j \in 1..(i - 1) : str[j] = " ") - 1

\* the number of Element ancestors of n
RECURSIVE ElementAncestors(_, _)
ElementAncestors(ns, n) ==
    IF ns[n].Parent = NIL THEN 0
    ELSE (IF ns[ns[n].Parent].Type = ElementNode THEN 1 ELSE 0)
            + ElementAncestors(ns, ns[n].Parent)

Spaces(k) == [i \in 1..(4 * k) |-> " "]
OpenTag(tag) == <<"<">> \o tag \o <<">">>
CloseTag(tag) == CloseTagOpen \o tag \o <<">">>

\* the log entries of the open and of the close calls for node n
OpensOf(n) == {i \in 1..Len(s.log) : s.log[i].op = "open" /\ s.log[i].n = n}
ClosesOf(n) == {i \in 1..Len(s.log) : s.log[i].op = "close" /\ s.log[i].n = n}

RECURSIVE JoinLines(_)
JoinLines(lines) ==
    IF Len(lines) = 1 THEN Spaces(lines[1][1]) \o lines[1][2]
    ELSE Spaces(lines[1][1]) \o lines[1][2] \o <<"\n">> \o JoinLines(Tail(lines))

\* the 14 lines of the example, each with its nesting level
ExampleOutput ==
    JoinLines(<<
        <<0, OpenTag(tagHtml)>>,
        <<1, OpenTag(tagHead)>>,
        <<2, OpenTag(tagTitle) \o <<"d", "e", "m", "o">> \o CloseTag(tagTitle)>>,
        <<1, CloseTag(tagHead)>>,
        <<1, OpenTag(tagBody)>>,
        <<2, OpenTag(tagDiv)>>,
        <<3, OpenTag(tagH1)
                \o <<"t", "h", "i", "s", " ", "i", "s", " ", "a", " ", "d", "e", "m", "o">>
                \o CloseTag(tagH1)>>,
        <<3, OpenTag(tagP) \o <<"o", "k">> \o CloseTag(tagP)>>,
        <<3, OpenTag(tagDiv)>>,
        <<4, OpenTag(tagSpan)
                \o <<"t", "h", "i", "s", " ", "w", "i", "l", "l", " ", "d", "o">>
                \o CloseTag(tagSpan)>>,
        <<3, CloseTag(tagDiv)>>,
        <<2, CloseTag(tagDiv)>>,
        <<1, CloseTag(tagBody)>>,
        <<0, CloseTag(tagHtml)>> >>)

\* C1: Copy of the example tree writes exactly the 14 lines of the example:
\* one tag per line, 4 spaces per nesting level, title, h1, p and span with
\* their text on one line (p as <p>ok</p>), no line break after </html>.
C1_ExampleOutput ==
    (Finished /\ src.doc = DocumentOf(ExampleTop)) => dst = ExampleOutput

C1_Witness ==
    /\ Finished
    /\ src.doc = DocumentOf(ExampleTop)
    /\ \E i \in 1..Len(s.log) :
          s.log[i].op = "text" /\ Seg(s.log[i]) = <<"o", "k">>

\* C2: rendering is idempotent: when Copy has written R, parsing R and
\* rendering the tree again gives R, byte for byte, without error (also for
\* documents with a pre element at depth >= 2, whose output holds
\* indentation guides).
C2_Idempotent ==
    Finished => render(Parse(dst)) = [out |-> dst, err |-> NoErr]

\* C3: at every call of a node writer t.indent is the number of Element
\* ancestors of the node written, and the indentation written before an open
\* tag, a close tag or a comment, if any is written, is 4 spaces for each of
\* them.
C3_IndentIsDepth ==
    \A i \in 1..Len(s.log) :
        /\ s.log[i].indent = ElementAncestors(s.nodes, s.log[i].n)
        /\ (s.log[i].op \in {"open", "close", "comment"} /\ s.log[i].err = NoErr)
              => LeadingSpaces(Seg(s.log[i]))
                    \in {0, 4 * ElementAncestors(s.nodes, s.log[i].n)}

C3_Witness ==
    \E i \in 1..Len(s.log) :
        /\ s.log[i].op = "comment"
        /\ s.log[i].indent = 4
        /\ ElementAncestors(s.nodes, s.log[i].n) = 4
        /\ LeadingSpaces(Seg(s.log[i])) = 16

RECURSIVE AttrText(_)
AttrText(attrs) ==
    IF attrs = <<>> THEN <<>>
    ELSE <<" ">> \o Head(attrs).Key \o <<"=", "\"">> \o EscapeString(Head(attrs).Val)
            \o <<"\"">> \o AttrText(Tail(attrs))

TagText(ns, n) == <<"<">> \o ns[n].Data \o AttrText(ns[n].Attr) \o <<">">>

\* the nodes from c on and what is below them, in document order, as they
\* stand: the data of text nodes, the tags of elements, comments
RECURSIVE Verbatim(_, _)
Verbatim(ns, c) ==
    IF c = NIL THEN <<>>
    ELSE (CASE ns[c].Type = TextNode -> ns[c].Data
            [] ns[c].Type = CommentNode -> CommentOpen \o ns[c].Data \o CommentClose
            [] OTHER ->
                TagText(ns, c) \o Verbatim(ns, ns[c].FirstChild)
                    \o (IF ns[c].Data \in voidElements THEN <<>>
                        ELSE CloseTag(ns[c].Data)))
         \o Verbatim(ns, ns[c].NextSibling)

\* the pre elements that opened a pre block, by the log entry of their open call
PreOpeners ==
    {i \in 1..Len(s.log) :
        /\ s.log[i].op = "open"
        /\ s.nodes[s.log[i].n].Data = tagPre
        /\ s.log[i].pre = s.log[i].indent}

\* C5: between the open tag and the close tag of the pre element that opened
\* a pre block the output is the subtree as it stands: the data of its text
\* nodes, the tags of its elements and its comments in document order, with
\* no indentation, line break or indentation guide added (also with a pre
\* element nested in it).
C5_PreVerbatim ==
    Finished =>
        \A i \in PreOpeners : \A j \in ClosesOf(s.log[i].n) :
            /\ Seg(s.log[i])[Len(Seg(s.log[i]))] = ">"
            /\ HasPrefixAt(Seg(s.log[j]), 1, CloseTag(tagPre))
            /\ SubSeq(s.buf, s.log[i].to + 1, s.log[j].from)
                  = Verbatim(s.nodes, s.nodes[s.log[i].n].FirstChild)

\* the tree without the node b that stands between two siblings
Without(ns, b) ==
    [ns EXCEPT ![ns[b].PrevSibling].NextSibling = ns[b].NextSibling,
               ![ns[b].NextSibling].PrevSibling = ns[b].PrevSibling]

\* the blank text nodes of the document between two sibling elements that
\* were pruned, or visited, while no pre and no text block was open
BlanksInNormalFlow ==
    {b \in 1..Len(src.doc) :
        /\ isBlankText(src.doc, b)
        /\ src.doc[b].PrevSibling # NIL /\ src.doc[b].NextSibling # NIL
        /\ src.doc[src.doc[b].PrevSibling].Type = ElementNode
        /\ src.doc[src.doc[b].NextSibling].Type = ElementNode
        /\ \/ b \in s.pruned
           \/ \E i \in 1..Len(s.log) :
                 /\ s.log[i].n = b
                 /\ s.log[i].pre = -1 /\ s.log[i].text = -1}

\* C6: a blank text node between two sibling elements that is pruned or
\* visited while no pre and no text block is open puts no byte into the
\* output: what Copy writes is what render gives for the tree without it.
C6_BlankContributesNothing ==
    Finished =>
        \A b \in BlanksInNormalFlow :
            /\ \A i \in 1..Len(s.log) : s.log[i].n = b => s.log[i].from = s.log[i].to
            /\ render(Without(src.doc, b)) = [out |-> dst, err |-> NoErr]

C6_Witness ==
    /\ Finished
    /\ \E b \in BlanksInNormalFlow :
          /\ b \in s.pruned
          /\ isPreNode(src.doc, src.doc[b].PrevSibling)
          /\ isPreNode(src.doc, src.doc[b].NextSibling)

\* the open calls that ran without error, and the attributes of their elements
OpenCalls == {i \in 1..Len(s.log) : s.log[i].op = "open" /\ s.log[i].err = NoErr}
AttrsOf(i) == s.nodes[s.log[i].n].Attr

\* C7 as the specification states it: an attribute value with a double quote
\* in it is written in single quotes, one without in double quotes.
C7_QuoteByContent ==
    \A i \in OpenCalls : \A k \in 1..Len(AttrsOf(i)) :
        Contains(Seg(s.log[i]),
                 <<" ">> \o AttrsOf(i)[k].Key
                    \o <<"=", IF ContainsQuote(AttrsOf(i)[k].Val) THEN "'" ELSE "\"">>)

\* C7: every attribute value is written escaped (a double quote as &#34;, a
\* single quote as &#39;) and in double quotes, whether or not it holds a
\* double quote; no single quote is written in an open tag.
C7_EscapedInDoubleQuotes ==
    \A i \in OpenCalls :
        /\ Contains(Seg(s.log[i]), TagText(s.nodes, s.log[i].n))
        /\ \A k \in 1..Len(AttrsOf(i)) :
              /\ ~ContainsQuote(EscapeString(AttrsOf(i)[k].Val))
              /\ Contains(Seg(s.log[i]),
                          <<"=", "\"">> \o EscapeString(AttrsOf(i)[k].Val) \o <<"\"">>)
        /\ \A c \in 1..Len(Seg(s.log[i])) : Seg(s.log[i])[c] # "'"

C7_Witness ==
    \E i \in OpenCalls : \E k \in 1..Len(AttrsOf(i)) :
        /\ ContainsQuote(AttrsOf(i)[k].Val)
        /\ Contains(Seg(s.log[i]),
                    <<" ", "a", "=", "\"", "x", "&", "#", "3", "4", ";", "\"">>)

\* the elements other than pre whose only child is a void element, by the
\* log entry of their open call
OnlyVoidChild ==
    {i \in 1..Len(s.log) :
        /\ s.log[i].op = "open"
        /\ s.nodes[s.log[i].n].Data # tagPre
        /\ Len(Children(s.nodes, s.log[i].n)) = 1
        /\ s.nodes[s.nodes[s.log[i].n].FirstChild].Type = ElementNode
        /\ s.nodes[s.nodes[s.log[i].n].FirstChild].Data \in voidElements}

\* no pre and no text block is open at the call of entry i
InNormalFlow(i) == s.log[i].pre = -1 /\ s.log[i].text = -1

\* what is written from the open tag of the element of entry i to its close
\* tag, the indentation before the first and the line break after the last
\* left out
FromOpenToClose(i, j) ==
    SubSeq(s.buf, s.log[i].from + 1 + LeadingSpaces(Seg(s.log[i])),
           s.log[j].to - (IF Seg(s.log[j])[Len(Seg(s.log[j]))] = "\n" THEN 1 ELSE 0))

\* <p><br></p>: nothing between the open tag, the tag of the child and the
\* close tag
OneLine(i) ==
    TagText(s.nodes, s.log[i].n)
        \o TagText(s.nodes, s.nodes[s.log[i].n].FirstChild)
        \o CloseTag(s.nodes[s.log[i].n].Data)

\* the open tag, the tag of the child one level deeper, the close tag at the
\* level of the element, each on its line
ThreeLines(i) ==
    TagText(s.nodes, s.log[i].n) \o <<"\n">>
        \o Spaces(s.log[i].indent + 1)
        \o TagText(s.nodes, s.nodes[s.log[i].n].FirstChild) \o <<"\n">>
        \o Spaces(s.log[i].indent)
        \o CloseTag(s.nodes[s.log[i].n].Data)

C9_NothingWrittenOnError ==
    /\ dst # <<>> => (pc = "done" /\ ret = NoErr /\ s.err = NoErr /\ dst = s.buf)
    /\ (pc = "done" /\ (s.err # NoErr \/ src.fault.parseErr))
          => (ret # NoErr /\ dst = <<>> /\ ret = IF src.fault.parseErr THEN "parse" ELSE s.err)
    /\ ret # NoErr => dst = <<>>

C9_Witness ==
    /\ pc = "done"
    /\ ret = "cannot render"
    /\ s.buf # <<>>
    /\ dst = <<>>

\* the elements below and at the sibling chain from c on, in document order
RECURSIVE PreOrder(_, _)
PreOrder(ns, c) ==
    IF c = NIL THEN <<>>
    ELSE (IF ns[c].Type = ElementNode THEN <<c>> ELSE <<>>)
            \o PreOrder(ns, ns[c].FirstChild) \o PreOrder(ns, ns[c].NextSibling)

\* the nodes of the log entries of one kind, in the order of the calls
RECURSIVE CallsOf(_, _)
CallsOf(log, op) ==
    IF log = <<>> THEN <<>>
    ELSE (IF Head(log).op = op THEN <<Head(log).n>> ELSE <<>>) \o CallsOf(Tail(log), op)

\* the first node of the walk: the first child of the document node
FirstNode == src.doc[1].FirstChild

\* C10: in a render that ends without error every Element of the tree (as
\* pruned and re-parsed) gets exactly one open call and exactly one close
\* call; the opens come in document order; an element is closed after it is
\* opened, after everything below it is closed, and before a following
\* sibling is opened.
C10_OpenCloseOrder ==
    Finished =>
        /\ CallsOf(s.log, "open") = PreOrder(s.nodes, FirstNode)
        /\ \A k \in 1..Len(PreOrder(s.nodes, FirstNode)) :
              LET e == PreOrder(s.nodes, FirstNode)[k]
              IN /\ Cardinality(OpensOf(e)) = 1
                 /\ Cardinality(ClosesOf(e)) = 1
                 /\ \A o \in OpensOf(e) : \A c \in ClosesOf(e) :
                       /\ o < c
                       /\ \A d \in 1..Len(s.nodes) :
                             s.nodes[d].Parent = e
                                => \A x \in OpensOf(d) \cup ClosesOf(d) : o < x /\ x < c
                       /\ \A f \in 1..Len(s.nodes) :
                             (s.nodes[e].NextSibling = f /\ f # NIL)
                                => \A x \in OpensOf(f) : c < x

C10_Witness ==
    /\ Finished
    /\ Len(PreOrder(s.nodes, FirstNode)) >= 6
    /\ s.pruned # {}
    /\ Len(s.nodes) > Len(src.doc)

\* n and the nodes above it
RECURSIVE AncestorsOrSelf(_, _)
AncestorsOrSelf(ns, n) ==
    IF n = NIL THEN {} ELSE {n} \cup AncestorsOrSelf(ns, ns[n].Parent)

\* the elements at or above n that stand at depth d
OpenersAbove(ns, n, d) ==
    {e \in AncestorsOrSelf(ns, n) :
        ns[e].Type = ElementNode /\ ElementAncestors(ns, e) = d}

\* C11: a pre block or a text block is open only at the element that opened
\* it and below it: at every call of a node writer with t.preBlock set, the
\* node written is a pre element at depth t.preBlock or lies below one, and
\* with t.textBlock set it is a text block element at depth t.textBlock or
\* lies below one (also after a pre element without children).
C11_RegionOnlyBelowOpener ==
    \A i \in 1..Len(s.log) :
        /\ s.log[i].pre # -1
              => \E e \in OpenersAbove(s.nodes, s.log[i].n, s.log[i].pre) :
                    isPreNode(s.nodes, e)
        /\ s.log[i].text # -1
              => \E e \in OpenersAbove(s.nodes, s.log[i].n, s.log[i].text) :
                    isTextBlock(s.nodes, e)

\* the same with the pre elements without children left aside: the calls
\* made before any such element was opened
BelowOpenerBeforeEmptyPre ==
    \A i \in 1..Len(s.log) :
        (\A j \in 1..i : ~(isPreNode(s.nodes, s.log[j].n) /\ ~hasChild(s.nodes, s.log[j].n)))
            => /\ s.log[i].pre # -1
                     => \E e \in OpenersAbove(s.nodes, s.log[i].n, s.log[i].pre) :
                           isPreNode(s.nodes, e)
               /\ s.log[i].text # -1
                     => \E e \in OpenersAbove(s.nodes, s.log[i].n, s.log[i].text) :
                           isTextBlock(s.nodes, e)

\* C12 as the specification states it: t.preBlock and t.textBlock are never
\* both set.
C12_NeverBothSet ==
    /\ ~(inPreBlock(s) /\ inTextBlock(s))
    /\ \A i \in 1..Len(s.log) : ~(s.log[i].pre # -1 /\ s.log[i].text # -1)

\* C12: a text block is never opened while a pre block is open, and a pre
\* element that holds text opens the pre block only; a pre element below an
\* open text block does open a pre block, so both markers can be set, and
\* then t.textBlock is the shallower of the two.
C12_TextBlockNotOpenedInPre ==
    /\ (inPreBlock(s) /\ inTextBlock(s)) => s.textBlock < s.preBlock
    /\ \A i \in 1..Len(s.log) :
          /\ (s.log[i].pre # -1 /\ s.log[i].text # -1) => s.log[i].text < s.log[i].pre
          /\ (s.log[i].op = "open" /\ isPreNode(s.nodes, s.log[i].n)
                /\ s.log[i].pre = s.log[i].indent)
                => s.log[i].text # s.log[i].indent

C12_Witness ==
    /\ inPreBlock(s) /\ inTextBlock(s)
    /\ s.textBlock < s.preBlock
    /\ \E i \in 1..Len(s.log) :
          /\ s.log[i].op = "text"
          /\ s.log[i].pre = 3 /\ s.log[i].text = 2
    /\ \E i \in 1..Len(s.log) :
          /\ s.log[i].op = "open" /\ isPreNode(s.nodes, s.log[i].n)
          /\ isTextBlock(s.nodes, s.log[i].n)
          /\ s.log[i].pre = s.log[i].indent /\ s.log[i].text = -1

\* the calls recorded in the log that returned with t.err set
FailedCalls == {i \in 1..Len(s.log) : s.log[i].err # NoErr}

ErrorKeptByWriters ==
    \A i \in FailedCalls :
        /\ \A j \in (i + 1)..Len(s.log) :
              s.log[j].op # "reparse" => s.log[j].err # NoErr
        /\ Len(s.buf) = s.log[i].to
        /\ pc = "done" => ret # NoErr

\* the calls of writeComment that ran without error
CommentCalls == {i \in 1..Len(s.log) : s.log[i].op = "comment" /\ s.log[i].err = NoErr}

CommentText(ns, n) == CommentOpen \o ns[n].Data \o CommentClose

\* C14 as the specification states it: a comment is followed by a line break
\* unless it is the very last node or a pre block is open; so it is inside a
\* text block.
C14_BreakUnlessPre ==
    \A i \in CommentCalls :
        (~isVeryLastNode(s.nodes, s.log[i].n) /\ s.log[i].pre = -1)
            => Seg(s.log[i])[Len(Seg(s.log[i]))] = "\n"

\* C14: writeComment writes the line break after a comment exactly when the
\* comment is not the very last node and neither a pre block nor a text block
\* is open; a comment inside a text block is written as <!--...--> alone,
\* with no indentation before it and no line break after it.
C14_BreakInNormalBlock ==
    \A i \in CommentCalls :
        Seg(s.log[i]) =
            (IF ~isVeryFirstNode(s.nodes, s.log[i].n) /\ InNormalFlow(i)
             THEN Spaces(s.log[i].indent) ELSE <<>>)
            \o CommentText(s.nodes, s.log[i].n)
            \o (IF ~isVeryLastNode(s.nodes, s.log[i].n) /\ InNormalFlow(i)
                THEN <<"\n">> ELSE <<>>)

C14_Witness ==
    /\ \E i \in CommentCalls :
          /\ s.log[i].text # -1 /\ s.log[i].pre = -1
          /\ hasNext(s.nodes, s.log[i].n)
          /\ Seg(s.log[i]) = CommentText(s.nodes, s.log[i].n)
    /\ \E i \in CommentCalls :
          /\ InNormalFlow(i)
          /\ Seg(s.log[i]) = Spaces(2) \o CommentText(s.nodes, s.log[i].n) \o <<"\n">>

\* position i of str holds white space: a space, a tab or a line break, and
\* with uni also a byte of a no-break space
Blank(str, i, uni) ==
    \/ str[i] \in {" ", "\n", "\t", "\r"}
    \/ uni /\ (~RuneStart(str, i) \/ RuneAt(str, i) = "A0")

\* str without the white space at its ends
Trimmed(str, uni) ==
    LET keep == {i \in 1..Len(str) : ~Blank(str, i, uni)}
    IN IF keep = {} THEN <<>>
       ELSE SubSeq(str, CHOOSE i \in keep : \A j \in keep : i <= j,
                        CHOOSE i \in keep : \A j \in keep : i >= j)

\* str from position i on with every maximal run of white space as one space
RECURSIVE CollapsedFrom(_, _, _)
CollapsedFrom(str, i, uni) ==
    IF i > Len(str) THEN <<>>
    ELSE (IF ~Blank(str, i, uni) THEN <<str[i]>>
          ELSE IF i > 1 /\ Blank(str, i - 1, uni) THEN <<>>
          ELSE <<" ">>)
            \o CollapsedFrom(str, i + 1, uni)

\* what the specification gives for a text node in a text block
ExpectedText(ns, n, uni) ==
    LET data == ns[n].Data
    IN IF Trimmed(data, uni) = <<>>
       THEN (IF hasPrev(ns, n) \/ hasNext(ns, n) THEN <<" ">> ELSE <<>>)
       ELSE (IF hasPrev(ns, n) /\ Blank(data, 1, uni) THEN <<" ">> ELSE <<>>)
            \o CollapsedFrom(Trimmed(data, uni), 1, uni)
            \o (IF hasNext(ns, n) /\ Blank(data, Len(data), uni) THEN <<" ">> ELSE <<>>)

\* the calls of writeText in a text block with no pre block open, without error
InlineTextCalls ==
    {i \in 1..Len(s.log) :
        /\ s.log[i].op = "text" /\ s.log[i].err = NoErr
        /\ s.log[i].text # -1 /\ s.log[i].pre = -1}

NoBreakNoDoubleSpace(str) ==
    /\ \A k \in 1..Len(str) : str[k] # "\n"
    /\ \A k \in 1..(Len(str) - 1) : ~(str[k] = " " /\ str[k + 1] = " ")

\* C15: a text node written in a text block with no pre block open comes out
\* as: one space if it has a previous sibling and its data starts with white
\* space, the trimmed data with every maximal run of white space as one
\* space, one space if it has a next sibling and its data ends with white
\* space; exactly one space when the trimmed data is empty and it has a
\* sibling; so without line break and without two adjacent spaces.  White
\* space is read either as spaces, tabs and line breaks or as those and the
\* no-break space: the output has to agree with one of the two readings.
C15_TextCollapsed ==
    \A i \in InlineTextCalls :
        /\ \/ Seg(s.log[i]) = ExpectedText(s.nodes, s.log[i].n, FALSE)
           \/ Seg(s.log[i]) = ExpectedText(s.nodes, s.log[i].n, TRUE)
        /\ NoBreakNoDoubleSpace(Seg(s.log[i]))

\* the same for the text nodes that hold no no-break space, and for all of
\* them no line break and no two adjacent spaces
TextCollapsedWithoutNoBreakSpace ==
    \A i \in InlineTextCalls :
        /\ ~Contains(s.nodes[s.log[i].n].Data, NoBreakSpace)
              => Seg(s.log[i]) = ExpectedText(s.nodes, s.log[i].n, FALSE)
        /\ NoBreakNoDoubleSpace(Seg(s.log[i]))

\* all the nodes below and at the sibling chain from c on, in document order
RECURSIVE AllPreOrder(_, _)
AllPreOrder(ns, c) ==
    IF c = NIL THEN <<>>
    ELSE <<c>> \o AllPreOrder(ns, ns[c].FirstChild) \o AllPreOrder(ns, ns[c].NextSibling)

\* the nodes the cursor stood on at the switch, in the order of the visits
RECURSIVE Visits(_)
Visits(log) ==
    IF log = <<>> THEN <<>>
    ELSE (IF Head(log).op \in {"open", "text", "comment", "doctype"}
          THEN <<Head(log).n>> ELSE <<>>) \o Visits(Tail(log))

\* the outer loop has ended without error
WalkEnded == pc \in {"flush", "copy", "done"} /\ s.err = NoErr /\ ~src.fault.parseErr

\* the walk has visited every node of the tree (as pruned and re-parsed)
\* once, in document order, and the cursor is nil
WalkedOnce ==
    WalkEnded =>
        /\ s.n = NIL
        /\ Visits(s.log) = AllPreOrder(s.nodes, FirstNode)
        /\ \A x \in s.pruned : \A k \in 1..Len(s.log) : s.log[k].n # x
        /\ s.nodes[s.log[Len(s.log)].n].Parent = NIL
        /\ s.nodes[s.log[Len(s.log)].n].NextSibling = NIL

\* in every state that is not Ended the guard of one action holds
StepPossible ==
    /\ pc \in {"parse", "visit", "ascend", "flush", "failed", "copy", "done", "panic"}
    /\ pc \in {"visit", "ascend"} => s.n \in 1..Len(s.nodes)

\* C16: the walk terminates: every run of Copy comes to its end, and when the
\* loop has ended without error the cursor is nil, every node of the tree
\* that is not pruned has been visited exactly once, in document order, no
\* pruned node was visited, and the last call was for the last top-level
\* node.
C16_WalkTerminates ==
    /\ [](WalkedOnce /\ StepPossible)
    /\ <>Ended

C16_Witness ==
    /\ Finished
    /\ s.n = NIL
    /\ s.pruned # {}
    /\ Len(Visits(s.log)) >= 10
    /\ Len(s.nodes) > Len(src.doc)

\* the indentation guides as writeIndentationGuide writes them at depth k,
\* with the line break after the opening and before the closing one
RECURSIVE Times(_, _)
Times(k, str) == IF k <= 0 THEN <<>> ELSE str \o Times(k - 1, str)

OpenGuideText(k) == CommentOpen \o Times(k - 1, GuideOpen) \o GuideEnd \o <<"\n">>
CloseGuideText(k) == <<"\n">> \o CommentOpen \o Times(k - 1, GuideClose) \o GuideEnd

\* the open and the close calls for pre elements at depth >= 2, without error
PreOpens ==
    {i \in 1..Len(s.log) :
        /\ s.log[i].op = "open" /\ isPreNode(s.nodes, s.log[i].n)
        /\ s.log[i].indent >= 2 /\ s.log[i].err = NoErr}

PreCloses ==
    {i \in 1..Len(s.log) :
        /\ s.log[i].op = "close" /\ isPreNode(s.nodes, s.log[i].n)
        /\ s.log[i].indent >= 2 /\ s.log[i].err = NoErr}

WritesOpenGuide(i) == HasPrefixAt(Seg(s.log[i]), 1, OpenGuideText(s.log[i].indent))
WritesCloseGuide(j) == Contains(Seg(s.log[j]), CloseGuideText(s.log[j].indent))

\* the pre elements that follow the element of close call j, blank text
\* between them skipped, by their open calls
NextPreOpens(j) == {i \in PreOpens : getPrevElement(s.nodes, s.log[i].n) = s.log[j].n}

\* a closing guide after a pre element exactly when the pre element that
\* follows it, if any, writes an opening guide; as many opening as closing
\* guides
Balanced(closes) ==
    /\ \A j \in closes :
          WritesCloseGuide(j) <=> \A i \in NextPreOpens(j) : WritesOpenGuide(i)
    /\ \A i \in PreOpens : WritesOpenGuide(i) \/ ~Contains(Seg(s.log[i]), GuideOpen)
    /\ \A j \in PreCloses : WritesCloseGuide(j) \/ ~Contains(Seg(s.log[j]), GuideClose)

\* C17: opening and closing indentation guides are balanced: at depth >= 2 a
\* closing guide (line break, then the ==> marker) is written after a pre
\* element exactly when the pre element that follows it, blank text skipped,
\* writes an opening guide (the <== marker, then a line break), if there is
\* one; so a run of adjacent pre elements has one opening and one closing
\* guide with the same number of tokens, also when blank text that was not
\* pruned stands between them.
C17_GuidesBalanced ==
    Finished =>
        /\ Balanced(PreCloses)
        /\ Cardinality({i \in PreOpens : WritesOpenGuide(i)})
              = Cardinality({j \in PreCloses : WritesCloseGuide(j)})

\* the same for the pre elements that are not followed by blank text left in
\* the tree
GuidesBalancedWithoutBlankText ==
    Finished =>
        Balanced({j \in PreCloses :
                    ~isBlankText(s.nodes, s.nodes[s.log[j].n].NextSibling)})

\* the calls of parseTextNode
Reparses == {i \in 1..Len(s.log) : s.log[i].op = "reparse"}

\* the children of n have n as their parent and are chained from its first
\* child by NextSibling and PrevSibling
ChildrenLinked(ns, n) ==
    LET kids == Children(ns, n)
    IN /\ kids # <<>>
       /\ ns[kids[1]].PrevSibling = NIL
       /\ ns[kids[Len(kids)]].NextSibling = NIL
       /\ \A k \in 1..Len(kids) : ns[kids[k]].Parent = n
       /\ \A k \in 1..(Len(kids) - 1) : ns[kids[k + 1]].PrevSibling = kids[k]

\* a re-parse that returned: it recorded the error of html.ParseFragment, or
\* the element has the parsed nodes as its children
ReparseReturned(i) ==
    \/ s.log[i].err = "parse"
    \/ /\ s.log[i].err = NoErr
       /\ ChildrenLinked(s.nodes, s.log[i].n)
       /\ \A c \in 1..Len(Children(s.nodes, s.log[i].n)) :
             Children(s.nodes, s.log[i].n)[c] > Len(src.doc)

\* C18: the re-parse of a noscript element never faults: for every noscript
\* element the walk meets, one without a child among them, parseTextNode
\* returns, and it has either put the parsed nodes in place of the children
\* (each with the element as parent, chained from the first child) or
\* recorded an error; no nil first child is dereferenced.
C18_ReparseNeverFaults ==
    /\ pc # "panic"
    /\ \A i \in Reparses : s.log[i].err # PanicErr

\* the same for the noscript elements that have a child
ReparseWithChild ==
    \A i \in Reparses :
        (\E c \in 1..Len(src.doc) : src.doc[c].Parent = s.log[i].n)
            => ReparseReturned(i)

====
